---- MODULE Spec2Model ----
(***************************************************************************)
(* A model of src/src/sntp.rs: the single SNTP exchange ntp(), the two     *)
(* wrappers unix_timestamp() and clock_offset_nanos(), the timestamp       *)
(* conversions and the 48-byte codec NtpMsg::marshal / NtpMsg::unmarshal.  *)
(*                                                                         *)
(* TLC's integers are 32 bits wide, the program's are u32, u64 and i64     *)
(* (2208988800 alone does not fit).  Every u32/u64 of the program is       *)
(* therefore a natural number written as the sequence of its base-256      *)
(* digits, least significant first, without leading zero digits (zero is   *)
(* <<>>); an i64 is a sign and such a magnitude.  Quantities that the      *)
(* program keeps below 2^31 (a Duration's nanoseconds, a byte, a length)   *)
(* are plain integers.                                                     *)
(***************************************************************************)
EXTENDS Integers, Sequences, FiniteSets, TLC

(***************************************************************************)
(* Natural numbers of any size (the program's u32 and u64 values).         *)
(***************************************************************************)
Base == 256

RECURSIVE Norm(_)
Norm(s) == IF s = <<>> THEN <<>>
           ELSE IF s[Len(s)] = 0 THEN Norm(SubSeq(s, 1, Len(s) - 1))
           ELSE s

RECURSIVE FromInt(_)
FromInt(n) == IF n = 0 THEN <<>> ELSE <<n % Base>> \o FromInt(n \div Base)

RECURSIVE ToInt(_)
ToInt(a) == IF a = <<>> THEN 0 ELSE a[1] + Base * ToInt(Tail(a))

Digit(a, k) == IF k < Len(a) THEN a[k + 1] ELSE 0

MaxLen(a, b) == IF Len(a) >= Len(b) THEN Len(a) ELSE Len(b)

\* a < b, comparing from the most significant digit down
RECURSIVE LessFrom(_, _, _)
LessFrom(a, b, k) ==
    IF k < 0 THEN FALSE
    ELSE IF Digit(a, k) # Digit(b, k) THEN Digit(a, k) < Digit(b, k)
    ELSE LessFrom(a, b, k - 1)

BigLess(a, b) == LessFrom(a, b, MaxLen(a, b) - 1)
BigLeq(a, b) == ~BigLess(b, a)

RECURSIVE AddFrom(_, _, _, _)
AddFrom(a, b, k, carry) ==
    IF k >= MaxLen(a, b) THEN (IF carry = 0 THEN <<>> ELSE <<carry>>)
    ELSE LET s == Digit(a, k) + Digit(b, k) + carry
         IN  <<s % Base>> \o AddFrom(a, b, k + 1, s \div Base)

BigAdd(a, b) == Norm(AddFrom(a, b, 0, 0))

\* a - b for b <= a
RECURSIVE SubFrom(_, _, _, _)
SubFrom(a, b, k, borrow) ==
    IF k >= Len(a) THEN <<>>
    ELSE LET s == Digit(a, k) - Digit(b, k) - borrow
         IN  IF s < 0 THEN <<s + Base>> \o SubFrom(a, b, k + 1, 1)
             ELSE <<s>> \o SubFrom(a, b, k + 1, 0)

BigSub(a, b) == Norm(SubFrom(a, b, 0, 0))

\* a * m for an integer 0 <= m < 2^22
RECURSIVE MulSmallFrom(_, _, _, _)
MulSmallFrom(a, m, k, carry) ==
    IF k >= Len(a) THEN FromInt(carry)
    ELSE LET s == a[k + 1] * m + carry
         IN  <<s % Base>> \o MulSmallFrom(a, m, k + 1, s \div Base)

BigMulSmall(a, m) == Norm(MulSmallFrom(a, m, 0, 0))

RECURSIVE BigMul(_, _)
BigMul(a, b) ==
    IF b = <<>> THEN <<>>
    ELSE BigAdd(BigMulSmall(a, b[1]), Norm(<<0>> \o BigMul(a, Tail(b))))

\* quotient and remainder of a by b # 0: long division, one digit of a at a time
RECURSIVE QuotDigit(_, _, _, _)
QuotDigit(b, r, lo, hi) ==
    IF lo = hi THEN lo
    ELSE LET mid == (lo + hi + 1) \div 2
         IN  IF BigLeq(BigMulSmall(b, mid), r) THEN QuotDigit(b, r, mid, hi)
             ELSE QuotDigit(b, r, lo, mid - 1)

RECURSIVE DivModFrom(_, _, _, _)
DivModFrom(a, b, k, r) ==
    IF k < 0 THEN [quot |-> <<>>, rem |-> r]
    ELSE LET r2 == Norm(<<a[k + 1]>> \o r)
             d == QuotDigit(b, r2, 0, Base - 1)
             rest == DivModFrom(a, b, k - 1, BigSub(r2, BigMulSmall(b, d)))
         IN  [quot |-> rest.quot \o <<d>>, rem |-> rest.rem]

BigDiv(a, b) == Norm(DivModFrom(a, b, Len(a) - 1, <<>>).quot)
BigMod(a, b) == DivModFrom(a, b, Len(a) - 1, <<>>).rem

\* a << 32, a >> 32 and a & 0xFFFFFFFF on whole digits (32 bits = 4 digits)
Shl32(a) == Norm(<<0, 0, 0, 0>> \o a)
Shr32(a) == IF Len(a) <= 4 THEN <<>> ELSE SubSeq(a, 5, Len(a))
Low32(a) == Norm(SubSeq(a, 1, IF Len(a) < 4 THEN Len(a) ELSE 4))
Low64(a) == Norm(SubSeq(a, 1, IF Len(a) < 8 THEN Len(a) ELSE 8))

U32_MAX == <<255, 255, 255, 255>>
U64_MAX == <<255, 255, 255, 255, 255, 255, 255, 255>>
I64_MAX == <<255, 255, 255, 255, 255, 255, 255, 127>>
Two64 == <<0, 0, 0, 0, 0, 0, 0, 0, 1>>

\* the bitwise | and & of two bytes, and of two naturals digit by digit
RECURSIVE OrBits(_, _, _)
OrBits(p, q, n) ==
    IF n = 0 THEN 0
    ELSE (IF p % 2 = 1 \/ q % 2 = 1 THEN 1 ELSE 0) + 2 * OrBits(p \div 2, q \div 2, n - 1)

RECURSIVE AndBits(_, _, _)
AndBits(p, q, n) ==
    IF n = 0 THEN 0
    ELSE (IF p % 2 = 1 /\ q % 2 = 1 THEN 1 ELSE 0) + 2 * AndBits(p \div 2, q \div 2, n - 1)

BigOr(a, b) == Norm([k \in 1..MaxLen(a, b) |-> OrBits(Digit(a, k - 1), Digit(b, k - 1), 8)])
BigAnd(a, b) == Norm([k \in 1..MaxLen(a, b) |-> AndBits(Digit(a, k - 1), Digit(b, k - 1), 8)])

\* u8 shifts: << drops the bits shifted out, >> is a division
ShlU8(v, k) == (v * (2 ^ k)) % Base
ShrU8(v, k) == v \div (2 ^ k)

(***************************************************************************)
(* Signed numbers (the program's i64 values): a sign and a magnitude.      *)
(***************************************************************************)
SMake(neg, mag) == [neg |-> neg /\ mag # <<>>, mag |-> mag]
SFromInt(n) == IF n < 0 THEN SMake(TRUE, FromInt(-n)) ELSE SMake(FALSE, FromInt(n))
SNeg(a) == SMake(~a.neg, a.mag)
SAdd(a, b) ==
    IF a.neg = b.neg THEN SMake(a.neg, BigAdd(a.mag, b.mag))
    ELSE IF BigLeq(b.mag, a.mag) THEN SMake(a.neg, BigSub(a.mag, b.mag))
    ELSE SMake(b.neg, BigSub(b.mag, a.mag))
SSub(a, b) == SAdd(a, SNeg(b))
SMul(a, b) == SMake(a.neg # b.neg, BigMul(a.mag, b.mag))
\* i64 division truncates toward zero
SDiv(a, b) == SMake(a.neg # b.neg, BigDiv(a.mag, b.mag))

\* whether a signed number is an i64, and the i64 that wrapping arithmetic leaves
I64Fits(a) == IF a.neg THEN BigLeq(a.mag, BigAdd(I64_MAX, <<1>>)) ELSE BigLeq(a.mag, I64_MAX)
\* `u as i64` of a u64
AsI64(u) == IF BigLeq(u, I64_MAX) THEN SMake(FALSE, u) ELSE SMake(TRUE, BigSub(Two64, u))
WrapI64(a) ==
    LET m == BigMod(a.mag, Two64)
    IN  AsI64(IF a.neg /\ m # <<>> THEN BigSub(Two64, m) ELSE m)

\* integer division of a plain integer, truncating toward zero as Rust's / does
TruncDiv(v, d) == IF v >= 0 THEN v \div d ELSE -((-v) \div d)

(***************************************************************************)
(* std::time::Duration: whole seconds (u64) and 0..999,999,999 nanoseconds.*)
(* The arithmetic is checked: an overflow panics in every build.  A result *)
(* is [ok, d], ok = FALSE standing for the panic.                          *)
(***************************************************************************)
NANOS_PER_SEC == 1000000000

Dur(secs, nanos) == [secs |-> secs, nanos |-> nanos]
ZeroDur == Dur(<<>>, 0)
Checked(ok, d) == [ok |-> ok, d |-> IF ok THEN d ELSE ZeroDur]

\* Duration::new(secs, nanos): nanoseconds of a second or more carry over
DurationNew(secs, nanos) ==
    LET s == BigAdd(secs, FromInt(nanos \div NANOS_PER_SEC))
    IN  Checked(BigLeq(s, U64_MAX), Dur(s, nanos % NANOS_PER_SEC))

\* Duration * u32
DurMul(a, k) ==
    LET total == a.nanos * k
        s == BigAdd(BigMulSmall(a.secs, k), FromInt(total \div NANOS_PER_SEC))
    IN  Checked(BigLeq(s, U64_MAX), Dur(s, total % NANOS_PER_SEC))

\* Duration + Duration
DurAdd(a, b) ==
    LET n == a.nanos + b.nanos
        s == BigAdd(BigAdd(a.secs, b.secs), IF n >= NANOS_PER_SEC THEN <<1>> ELSE <<>>)
    IN  Checked(BigLeq(s, U64_MAX),
                Dur(s, IF n >= NANOS_PER_SEC THEN n - NANOS_PER_SEC ELSE n))

\* Duration - Duration: panics when the result would be negative
DurSub(a, b) ==
    IF BigLess(a.secs, b.secs) THEN Checked(FALSE, ZeroDur)
    ELSE LET s == BigSub(a.secs, b.secs)
         IN  IF a.nanos >= b.nanos THEN Checked(TRUE, Dur(s, a.nanos - b.nanos))
             ELSE IF s = <<>> THEN Checked(FALSE, ZeroDur)
             ELSE Checked(TRUE, Dur(BigSub(s, <<1>>), a.nanos + NANOS_PER_SEC - b.nanos))

\* Duration / u32 (k # 0)
DurDiv(a, k) ==
    LET s == BigDiv(a.secs, FromInt(k))
        extra_secs == ToInt(BigMod(a.secs, FromInt(k)))
        extra_nanos == a.nanos % k
    IN  Checked(TRUE, Dur(s, a.nanos \div k
                             + ToInt(BigDiv(BigAdd(BigMulSmall(FromInt(NANOS_PER_SEC), extra_secs),
                                                   FromInt(extra_nanos)),
                                            FromInt(k)))))

\* a Duration as a count of nanoseconds
TotalNanos(d) == BigAdd(BigMul(d.secs, FromInt(NANOS_PER_SEC)), FromInt(d.nanos))


(***************************************************************************)
(* The timestamp conversions.                                              *)
(***************************************************************************)
\* 2208988800, the seconds from 1900-01-01 to 1970-01-01, written 22089|88800
EPOCH_OFFSET == BigAdd(BigMulSmall(FromInt(22089), 100000), FromInt(88800))

\* seconds << 32 | (u32::MAX / 1000000000 * nanos) as u64
\* (the u32 product never exceeds u32::MAX: the factor is 4, nanos < 10^9)
duration_to_ntp_timestamp(d) ==
    LET seconds == d.secs
        nanos == d.nanos
    IN  BigOr(Low64(Shl32(seconds)),
              Low32(BigMul(BigDiv(U32_MAX, FromInt(NANOS_PER_SEC)), FromInt(nanos))))

\* (t >> 32) - 2208988800 in u64: below the offset the subtraction overflows,
\* which panics where overflow checks are on and wraps modulo 2^64 where off
SecondsSince1970(t, checks) ==
    IF BigLeq(EPOCH_OFFSET, Shr32(t))
    THEN [ok |-> TRUE, secs |-> BigSub(Shr32(t), EPOCH_OFFSET)]
    ELSE [ok |-> ~checks, secs |-> BigSub(Two64, BigSub(EPOCH_OFFSET, Shr32(t)))]

\* (t & u32::MAX as u64) * 1000000000 / u32::MAX as u64
FractionNanos(t) == ToInt(BigDiv(BigMul(BigAnd(t, U32_MAX), FromInt(NANOS_PER_SEC)), U32_MAX))

ntp_timestamp_to_duration(t, checks) ==
    LET seconds == SecondsSince1970(t, checks)
        nanos == FractionNanos(t)
    IN  IF seconds.ok THEN DurationNew(seconds.secs, nanos) ELSE Checked(FALSE, ZeroDur)

(***************************************************************************)
(* The two derived values, as functions of the exchange tuple.             *)
(***************************************************************************)
\* the same chain without the doubling of t1
UnixTimestampNoDouble(t1, t2, t3, t4) ==
    LET b == DurAdd(t1, t2)
        c == IF b.ok THEN DurAdd(b.d, t3) ELSE b
        e == IF c.ok THEN DurSub(c.d, t1) ELSE c
        f == IF e.ok THEN DurSub(e.d, t4) ELSE e
    IN  IF f.ok THEN DurDiv(f.d, 2) ELSE f

\* (t1 * 2 + t2 + t3 - t1 - t4) / 2, left to right; a panic ends the evaluation
UnixTimestampOf(t1, t2, t3, t4) ==
    LET a == DurMul(t1, 2)
        b == IF a.ok THEN DurAdd(a.d, t2) ELSE a
        c == IF b.ok THEN DurAdd(b.d, t3) ELSE b
        e == IF c.ok THEN DurSub(c.d, t1) ELSE c
        f == IF e.ok THEN DurSub(e.d, t4) ELSE e
    IN  IF f.ok THEN DurDiv(f.d, 2) ELSE f

\* the seconds halved before they are scaled: an odd sum loses half a second
ClockOffsetHalvedFirst(t1, t2, t3, t4) ==
    LET s == SAdd(SSub(AsI64(t2.secs), AsI64(t1.secs)), SSub(AsI64(t3.secs), AsI64(t4.secs)))
        diff == SMul(SDiv(s, SFromInt(2)), SFromInt(NANOS_PER_SEC))
        rem == TruncDiv(t2.nanos - t1.nanos + t3.nanos - t4.nanos, 2)
    IN  [ok |-> TRUE, val |-> SAdd(diff, SFromInt(rem))]

\* the i64 sum of the whole seconds, times 10^9, halved; plus the i64 sum of
\* the nanosecond remainders, halved.  [ok, val]: ok = FALSE where an i64
\* operation overflows (a panic with overflow checks, a wrapped val without)
ClockOffsetNanosOf(t1, t2, t3, t4) ==
    LET s1 == SSub(AsI64(t2.secs), AsI64(t1.secs))
        s2 == SAdd(WrapI64(s1), AsI64(t3.secs))
        s3 == SSub(WrapI64(s2), AsI64(t4.secs))
        p  == SMul(WrapI64(s3), SFromInt(NANOS_PER_SEC))
        diff == SDiv(WrapI64(p), SFromInt(2))
        rem == TruncDiv(t2.nanos - t1.nanos + t3.nanos - t4.nanos, 2)
        sum == SAdd(diff, SFromInt(rem))
    IN  [ok |-> I64Fits(s1) /\ I64Fits(s2) /\ I64Fits(s3) /\ I64Fits(p) /\ I64Fits(sum),
         val |-> WrapI64(sum)]

(***************************************************************************)
(* NtpMsg and its codec.                                                   *)
(***************************************************************************)
NTP_VERSION_4 == 4
NTP_MODE_CLIENT == 3
MSG_LEN == 48

\* NtpMsg::new
NewMsg ==
    [leap_indicator |-> 0, version_number |-> 0, mode |-> 0, stratum |-> 0,
     poll |-> 0, precision |-> 0, root_delay |-> <<>>, root_dispersion |-> <<>>,
     reference_identifier |-> <<>>, reference_timestamp |-> <<>>,
     originate_timestamp |-> <<>>, receiver_timestamp |-> <<>>,
     transmit_timestamp |-> <<>>]

\* NtpMsg::new_for_client
new_for_client(version, transmit_timestamp) ==
    [NewMsg EXCEPT !.version_number = version, !.mode = NTP_MODE_CLIENT,
                   !.transmit_timestamp = transmit_timestamp]

\* to_be_bytes of a w-byte unsigned: the most significant byte first
to_be_bytes(v, w) == [i \in 1..w |-> Digit(v, w - i)]
\* from_be_bytes
from_be_bytes(bytes) == Norm([i \in 1..Len(bytes) |-> bytes[Len(bytes) + 1 - i]])

marshal(m) ==
    << OrBits(OrBits(ShlU8(m.leap_indicator, 6), ShlU8(m.version_number, 3), 8), m.mode, 8),
       m.stratum, m.poll, m.precision >>
    \o to_be_bytes(m.root_delay, 4)
    \o to_be_bytes(m.root_dispersion, 4)
    \o to_be_bytes(m.reference_identifier, 4)
    \o to_be_bytes(m.reference_timestamp, 8)
    \o to_be_bytes(m.originate_timestamp, 8)
    \o to_be_bytes(m.receiver_timestamp, 8)
    \o to_be_bytes(m.transmit_timestamp, 8)

\* data[lo..hi] of the source, on a sequence indexed from 1
Slice(data, lo, hi) == SubSeq(data, lo + 1, hi)

\* a decoder that refuses only the buffers that are too short
unmarshal_short_only(m, data) ==
    IF Len(data) < MSG_LEN THEN [ok |-> FALSE, msg |-> m]
    ELSE [ok |-> TRUE,
          msg |-> [m EXCEPT !.originate_timestamp = from_be_bytes(Slice(data, 24, 32)),
                            !.receiver_timestamp = from_be_bytes(Slice(data, 32, 40)),
                            !.transmit_timestamp = from_be_bytes(Slice(data, 40, 48))]]

\* [ok, msg]: ok = FALSE is Err(TruncatedNtpMessage), the message left as it was
unmarshal(m, data) ==
    IF Len(data) # MSG_LEN THEN [ok |-> FALSE, msg |-> m]
    ELSE [ok |-> TRUE,
          msg |-> [leap_indicator |-> ShrU8(data[1], 6),
                   version_number |-> AndBits(ShrU8(data[1], 3), 7, 8),
                   mode |-> AndBits(data[1], 7, 8),
                   stratum |-> data[2],
                   poll |-> data[3],
                   precision |-> data[4],
                   root_delay |-> from_be_bytes(Slice(data, 4, 8)),
                   root_dispersion |-> from_be_bytes(Slice(data, 8, 12)),
                   reference_identifier |-> from_be_bytes(Slice(data, 12, 16)),
                   reference_timestamp |-> from_be_bytes(Slice(data, 16, 24)),
                   originate_timestamp |-> from_be_bytes(Slice(data, 24, 32)),
                   receiver_timestamp |-> from_be_bytes(Slice(data, 32, 40)),
                   transmit_timestamp |-> from_be_bytes(Slice(data, 40, 48))]]

\* a check that compares the seconds alone
OriginateDiffersInSeconds(server_msg, timestamp) ==
    Shr32(server_msg.originate_timestamp) # Shr32(timestamp)

\* server_msg.originate_timestamp != timestamp
OriginateDiffers(server_msg, timestamp) == server_msg.originate_timestamp # timestamp


(***************************************************************************)
(* The environment's inputs, drawn from small sets.                        *)
(***************************************************************************)
NumTimes == 2
NumStamps == 4
NumXmit == 2

\* readings of the system clock (sys_time): a Duration since 1970, before
\* 2038 (a clock set before 1970, on which sys_time panics, is left out).
\* The clock is not monotonic, so any reading may follow any other.
TimeSample(i) ==
    Dur(FromInt(IF i % 2 = 1 THEN 1000 + i \div 2 ELSE 1700000000 + i),
        ((i - 1) * 250000000 + i \div 5) % NANOS_PER_SEC)
Times == {TimeSample(i) : i \in 1..NumTimes}

\* 64-bit timestamps a reply may carry: seconds field hi, fraction field lo
Stamp(hi, lo) == BigOr(Low64(Shl32(hi)), Low32(lo))
StampSample(j) ==
    CASE j = 1 -> Stamp(BigAdd(EPOCH_OFFSET, FromInt(1700000001)), <<0, 0, 0, 128>>)
      [] j = 2 -> Stamp(BigAdd(EPOCH_OFFSET, FromInt(10)), U32_MAX)
      [] j = 3 -> Stamp(FromInt(1000), <<1>>)
      [] j = 4 -> Stamp(BigSub(EPOCH_OFFSET, <<1>>), U32_MAX)
      [] OTHER -> Stamp(BigAdd(EPOCH_OFFSET, FromInt(1700000000 + j)), FromInt(j * 1000003))

\* originate timestamps a reply may carry, given the request's timestamp ts:
\* the echo, one tick off, one second off, and zero
Origs(ts) == {ts, Low64(BigAdd(ts, <<1>>)), Low64(BigAdd(ts, Shl32(<<1>>))), <<>>}

\* the rest of a reply: a server's header, or a nearly empty one
HeaderSample(h) ==
    IF h % 2 = 1
    THEN [NewMsg EXCEPT !.version_number = NTP_VERSION_4, !.mode = 4, !.stratum = 2,
                        !.poll = 3, !.precision = 233, !.root_delay = FromInt(70000 + h),
                        !.reference_identifier = <<1, 0, 0, 127>>]
    ELSE [NewMsg EXCEPT !.leap_indicator = h % 4]

\* the datagrams that may arrive: 48 bytes, or one cut short or with bytes added
ReplyLens == {0, MSG_LEN - 1, MSG_LEN, MSG_LEN + 1}
Resize(bytes, len) == [i \in 1..len |-> IF i <= Len(bytes) THEN bytes[i] ELSE 0]
Replies(ts) ==
    { Resize(marshal([HeaderSample(x) EXCEPT !.originate_timestamp = o,
                                             !.receiver_timestamp = StampSample(j),
                                             !.transmit_timestamp = StampSample(x)]), len) :
        o \in Origs(ts), j \in 1..NumStamps, x \in 1..NumXmit, len \in ReplyLens }

(***************************************************************************)
(* The state of one call.                                                  *)
(***************************************************************************)
VARIABLES
    caller,          \* the public function called
    overflow_checks, \* whether the build checks integer overflow (debug) or wraps
    pc,              \* where the call is
    socket,          \* "none", "open" or "closed"
    validate_time,   \* ntp's locals
    timestamp,
    buf,
    transmit_time,
    receive_time,
    n,
    server_msg,
    wire,            \* the datagrams sent, in order
    reply,           \* the datagrams received, in order
    ntp_result,      \* what ntp returned
    result,          \* what the public function returned
    trace            \* the steps taken, in order

vars == <<caller, overflow_checks, pc, socket, validate_time, timestamp, buf,
          transmit_time, receive_time, n, server_msg, wire, reply, ntp_result,
          result, trace>>

Callers == {"ntp", "unix_timestamp", "clock_offset_nanos"}
ErrorKinds == {"ServiceUnavailable", "BadNtpServerAddr", "UnexpectedErr",
               "TruncatedNtpMessage", "UntrustedMessage"}

SZero == SFromInt(0)
NoTuple == <<ZeroDur, ZeroDur, ZeroDur, ZeroDur>>
Ret(kind, err, tuple, time, offset) ==
    [kind |-> kind, err |-> err, tuple |-> tuple, time |-> time, offset |-> offset]
NoResult == Ret("none", "", NoTuple, ZeroDur, SZero)
Err(e) == Ret("err", e, NoTuple, ZeroDur, SZero)
Panic == Ret("panic", "", NoTuple, ZeroDur, SZero)
OkTuple(t) == Ret("ok", "", t, ZeroDur, SZero)

Init ==
    /\ caller \in Callers
    /\ overflow_checks \in BOOLEAN
    /\ pc = "start"
    /\ socket = "none"
    /\ validate_time = ZeroDur
    /\ timestamp = <<>>
    /\ buf = <<>>
    /\ transmit_time = ZeroDur
    /\ receive_time = ZeroDur
    /\ n = 0
    /\ server_msg = NewMsg
    /\ wire = <<>>
    /\ reply = <<>>
    /\ ntp_result = NoResult
    /\ result = NoResult
    /\ trace = <<>>

\* a socket that outlives its scope
DropLeak(sock) == sock

\* the UdpSocket is dropped, and so closed, when the scope that owns it ends
Drop(sock) == IF sock = "open" THEN "closed" ELSE sock

\* ntp returns r (by return, or by ? on an error): its locals are dropped
ReturnFromNtp(r) ==
    /\ ntp_result' = r
    /\ socket' = Drop(socket)
    /\ pc' = "returned"

\* a panic unwinds through ntp and its caller, dropping the locals
Unwind ==
    /\ result' = Panic
    /\ socket' = Drop(socket)
    /\ pc' = "done"


(***************************************************************************)
(* ntp(), step by step.                                                    *)
(***************************************************************************)
\* make_socket: bind, connect, set_write_timeout, set_read_timeout
make_socket ==
    /\ pc = "start"
    /\ trace' = Append(trace, "open")
    /\ \/ /\ ntp_result' = Err("ServiceUnavailable")   \* bind fails: no socket
          /\ socket' = socket
          /\ pc' = "returned"
       \/ /\ ntp_result' = Err("UnexpectedErr")        \* connect or a timeout setting fails
          /\ socket' = Drop("open")
          /\ pc' = "returned"
       \/ /\ socket' = "open"
          /\ pc' = "validate_time"
          /\ UNCHANGED ntp_result
    /\ UNCHANGED <<caller, overflow_checks, validate_time, timestamp, buf, transmit_time,
                   receive_time, n, server_msg, wire, reply, result>>

\* validate_time = sys_time(); timestamp; client_msg; buf = client_msg.marshal()
build_request ==
    /\ pc = "validate_time"
    /\ \E now \in Times :
          /\ validate_time' = now
          /\ timestamp' = duration_to_ntp_timestamp(now)
          /\ buf' = marshal(new_for_client(NTP_VERSION_4, duration_to_ntp_timestamp(now)))
    /\ trace' = Append(trace, "validate_time")
    /\ pc' = "transmit_time"
    /\ UNCHANGED <<caller, overflow_checks, socket, transmit_time, receive_time, n,
                   server_msg, wire, reply, ntp_result, result>>

\* transmit_time = sys_time()
capture_t1 ==
    /\ pc = "transmit_time"
    /\ \E now \in Times : transmit_time' = now
    /\ trace' = Append(trace, "t1")
    /\ pc' = "send"
    /\ UNCHANGED <<caller, overflow_checks, socket, validate_time, timestamp, buf,
                   receive_time, n, server_msg, wire, reply, ntp_result, result>>

\* a send whose failure is not propagated: the call goes on to the receive
send_full_no_abort ==
    /\ pc = "send"
    /\ trace' = Append(trace, "send")
    /\ \/ wire' = Append(wire, buf)
       \/ UNCHANGED wire
    /\ pc' = "recv"
    /\ UNCHANGED <<caller, overflow_checks, socket, validate_time, timestamp, buf,
                   transmit_time, receive_time, n, server_msg, reply, ntp_result, result>>

\* send_full(&socket, buf)?
send_full ==
    /\ pc = "send"
    /\ trace' = Append(trace, "send")
    /\ \/ /\ wire' = Append(wire, buf)
          /\ pc' = "recv"
          /\ UNCHANGED <<socket, ntp_result>>
       \/ /\ ReturnFromNtp(Err("ServiceUnavailable"))
          /\ UNCHANGED wire
    /\ UNCHANGED <<caller, overflow_checks, validate_time, timestamp, buf, transmit_time,
                   receive_time, n, server_msg, reply, result>>

\* n = recv_full(&socket, buf)?: a datagram fills the front of buf, what does
\* not fit is discarded; a timeout or an I/O error is an Err
recv_full ==
    /\ pc = "recv"
    /\ trace' = Append(trace, "recv")
    /\ \/ \E dg \in Replies(timestamp) :
             LET got == IF Len(dg) < Len(buf) THEN Len(dg) ELSE Len(buf)
             IN  /\ reply' = Append(reply, dg)
                 /\ n' = got
                 /\ buf' = [i \in 1..Len(buf) |-> IF i <= got THEN dg[i] ELSE buf[i]]
                 /\ pc' = "receive_time"
                 /\ UNCHANGED <<socket, ntp_result>>
       \/ /\ ReturnFromNtp(Err("ServiceUnavailable"))
          /\ UNCHANGED <<reply, n, buf>>
    /\ UNCHANGED <<caller, overflow_checks, validate_time, timestamp, transmit_time,
                   receive_time, server_msg, wire, result>>

\* receive_time = sys_time(); buf.truncate(n)
capture_t4 ==
    /\ pc = "receive_time"
    /\ \E now \in Times : receive_time' = now
    /\ buf' = SubSeq(buf, 1, n)
    /\ trace' = Append(trace, "t4")
    /\ pc' = "unmarshal"
    /\ UNCHANGED <<caller, overflow_checks, socket, validate_time, timestamp,
                   transmit_time, n, server_msg, wire, reply, ntp_result, result>>

\* server_msg = NtpMsg::new(); server_msg.unmarshal(buf)?
decode ==
    /\ pc = "unmarshal"
    /\ trace' = Append(trace, "decode")
    /\ LET r == unmarshal(NewMsg, buf)
       IN  /\ server_msg' = r.msg
           /\ IF r.ok
              THEN pc' = "check" /\ UNCHANGED <<socket, ntp_result>>
              ELSE ReturnFromNtp(Err("TruncatedNtpMessage"))
    /\ UNCHANGED <<caller, overflow_checks, validate_time, timestamp, buf, transmit_time,
                   receive_time, n, wire, reply, result>>

\* the originate check, the two conversions and the return of the tuple
check ==
    /\ pc = "check"
    /\ trace' = Append(trace, "check")
    /\ IF OriginateDiffers(server_msg, timestamp)
       THEN ReturnFromNtp(Err("UntrustedMessage")) /\ UNCHANGED result
       ELSE LET t2 == ntp_timestamp_to_duration(server_msg.receiver_timestamp, overflow_checks)
                t3 == ntp_timestamp_to_duration(server_msg.transmit_timestamp, overflow_checks)
            IN  IF t2.ok /\ t3.ok
                THEN /\ ReturnFromNtp(OkTuple(<<transmit_time, t2.d, t3.d, receive_time>>))
                     /\ UNCHANGED result
                ELSE Unwind /\ UNCHANGED ntp_result
    /\ UNCHANGED <<caller, overflow_checks, validate_time, timestamp, buf, transmit_time,
                   receive_time, n, server_msg, wire, reply>>

(***************************************************************************)
(* The public functions, from the return of ntp on.                        *)
(***************************************************************************)
Finish(r) ==
    /\ result' = r
    /\ pc' = "done"
    /\ UNCHANGED <<caller, overflow_checks, socket, validate_time, timestamp, buf,
                   transmit_time, receive_time, n, server_msg, wire, reply, ntp_result,
                   trace>>

\* a direct call of ntp
ntp ==
    /\ pc = "returned"
    /\ caller = "ntp"
    /\ Finish(ntp_result)

unix_timestamp ==
    /\ pc = "returned"
    /\ caller = "unix_timestamp"
    /\ IF ntp_result.kind = "err" THEN Finish(ntp_result)
       ELSE LET t == ntp_result.tuple
                r == UnixTimestampOf(t[1], t[2], t[3], t[4])
            IN  IF r.ok THEN Finish(Ret("ok", "", NoTuple, r.d, SZero)) ELSE Finish(Panic)

clock_offset_nanos ==
    /\ pc = "returned"
    /\ caller = "clock_offset_nanos"
    /\ IF ntp_result.kind = "err" THEN Finish(ntp_result)
       ELSE LET t == ntp_result.tuple
                r == ClockOffsetNanosOf(t[1], t[2], t[3], t[4])
            IN  IF r.ok \/ ~overflow_checks
                THEN Finish(Ret("ok", "", NoTuple, ZeroDur, r.val))
                ELSE Finish(Panic)

Next ==
    \/ make_socket
    \/ build_request
    \/ capture_t1
    \/ send_full
    \/ recv_full
    \/ capture_t4
    \/ decode
    \/ check
    \/ ntp
    \/ unix_timestamp
    \/ clock_offset_nanos

Spec == Init /\ [][Next]_vars


(***************************************************************************)
(* The functions on their own: the two derived values on any tuple that    *)
(* ntp may hand back, and the two conversions one after the other.         *)
(***************************************************************************)
NumDurs == 7

DurSample(i) ==
    CASE i = 1 -> Dur(FromInt(1000), 0)
      [] i = 2 -> Dur(FromInt(1000), 500000000)
      [] i = 3 -> Dur(FromInt(1000), 600000000)
      [] i = 4 -> Dur(FromInt(1000), 200000000)
      [] i = 5 -> Dur(FromInt(1000), 1)
      [] i = 6 -> Dur(FromInt(1001), 0)
      [] OTHER -> Dur(FromInt(1700000000 + i), NANOS_PER_SEC - i)
FnDurs == {DurSample(i) : i \in 1..NumDurs}

\* (the two derived values are the same in every build for these tuples: the
\* build is drawn for the conversions alone)
FnInit ==
    /\ socket = "none"
    /\ timestamp = <<>>
    /\ buf = <<>>
    /\ transmit_time = ZeroDur
    /\ receive_time = ZeroDur
    /\ n = 0
    /\ server_msg = NewMsg
    /\ wire = <<>>
    /\ reply = <<>>
    /\ result = NoResult
    /\ trace = <<>>
    /\ \/ /\ caller \in {"unix_timestamp", "clock_offset_nanos"}
          /\ overflow_checks = TRUE
          /\ pc = "returned"
          /\ validate_time = ZeroDur
          /\ \/ \E t1 \in FnDurs, t2 \in FnDurs, t3 \in FnDurs, t4 \in FnDurs :
                   ntp_result = OkTuple(<<t1, t2, t3, t4>>)
             \/ \E e \in ErrorKinds : ntp_result = Err(e)
       \/ /\ caller = "round_trip"
          /\ overflow_checks \in BOOLEAN
          /\ pc = "to_ntp"
          /\ validate_time \in FnDurs
          /\ ntp_result = NoResult

\* timestamp = duration_to_ntp_timestamp(&d)
to_ntp ==
    /\ pc = "to_ntp"
    /\ timestamp' = duration_to_ntp_timestamp(validate_time)
    /\ pc' = "to_duration"
    /\ UNCHANGED <<caller, overflow_checks, socket, validate_time, buf, transmit_time,
                   receive_time, n, server_msg, wire, reply, ntp_result, result, trace>>

\* ntp_timestamp_to_duration(timestamp)
to_duration ==
    /\ pc = "to_duration"
    /\ LET r == ntp_timestamp_to_duration(timestamp, overflow_checks)
       IN  IF r.ok THEN Finish(Ret("ok", "", NoTuple, r.d, SZero)) ELSE Finish(Panic)

FnNext ==
    \/ unix_timestamp
    \/ clock_offset_nanos
    \/ to_ntp
    \/ to_duration

FnSpec == FnInit /\ [][FnNext]_vars

(***************************************************************************)
(* What the claims speak of.                                               *)
(***************************************************************************)
Returned == pc \in {"returned", "done"}
Has(step) == \E i \in 1..Len(trace) : trace[i] = step
Last(seq) == seq[Len(seq)]
IsPrefix(p, q) == Len(p) <= Len(q) /\ SubSeq(q, 1, Len(p)) = p
Zeros(k) == [i \in 1..k |-> 0]
Two32 == Shl32(<<1>>)

\* a Duration, and differences of Durations, as signed counts of nanoseconds
Nanos(d) == SMake(FALSE, TotalNanos(d))
Tuple == ntp_result.tuple
OffsetSum == SAdd(SSub(Nanos(Tuple[2]), Nanos(Tuple[1])), SSub(Nanos(Tuple[3]), Nanos(Tuple[4])))
IsEven(a) == BigMod(a.mag, <<2>>) = <<>>
SampleTuple == <<DurSample(1), DurSample(2), DurSample(3), DurSample(4)>>
OffsetDone == pc = "done" /\ caller = "clock_offset_nanos" /\ ntp_result.kind = "ok"
TimeDone == pc = "done" /\ caller = "unix_timestamp" /\ ntp_result.kind = "ok"

\* the time d in NTP-timestamp form: seconds since 1900, fraction in 1/2^32 s
NtpForm(d) ==
    Stamp(BigAdd(d.secs, EPOCH_OFFSET),
          BigDiv(BigMul(FromInt(d.nanos), Two32), FromInt(NANOS_PER_SEC)))
\* d fits the 32-bit seconds field and its nanoseconds are a whole number of 1/2^32 s
Expressible(d) ==
    /\ BigLeq(BigAdd(d.secs, EPOCH_OFFSET), U32_MAX)
    /\ BigMod(BigMul(FromInt(d.nanos), Two32), FromInt(NANOS_PER_SEC)) = <<>>

\* the originate field of the datagram received, and the transmit field of the one sent
ReplyOriginate == Slice(reply[1], 24, 32)
RequestTransmit == Slice(wire[1], 40, 48)
GotFullReply == Returned /\ Len(wire) = 1 /\ Len(reply) = 1 /\ n = MSG_LEN

(***************************************************************************)
(* C1: when the send succeeded and 48 bytes were received whose originate  *)
(* field differs from the transmit field of the request sent, ntp returns  *)
(* Err(UntrustedMessage) and no tuple, and so does its caller; ntp returns *)
(* a tuple only when the two fields are equal.                             *)
(***************************************************************************)
OriginateEchoGuard ==
    GotFullReply =>
        /\ ReplyOriginate # RequestTransmit =>
              /\ ntp_result = Err("UntrustedMessage")
              /\ pc = "done" => result = Err("UntrustedMessage")
        /\ ntp_result.kind = "ok" => ReplyOriginate = RequestTransmit

OneTickOffRefused ==
    /\ pc = "done"
    /\ GotFullReply
    /\ from_be_bytes(ReplyOriginate) = Low64(BigAdd(timestamp, <<1>>))
    /\ result = Err("UntrustedMessage")

(***************************************************************************)
(* C2: converting a Duration d (seconds within the 32-bit field, sub-second*)
(* part a whole number of 1/2^32 s) to an NTP timestamp and back gives d.  *)
(***************************************************************************)
RoundTripIsIdentity ==
    (pc = "done" /\ caller = "round_trip" /\ Expressible(validate_time)) =>
        result.kind = "ok" /\ result.time = validate_time

OrderedTuple ==
    LET t1 == TotalNanos(Tuple[1])
        t2 == TotalNanos(Tuple[2])
        t3 == TotalNanos(Tuple[3])
        t4 == TotalNanos(Tuple[4])
    IN  BigLeq(t1, t2) /\ BigLeq(t1, t3) /\ BigLeq(t1, t4)
        /\ BigLeq(t4, BigAdd(t1, BigAdd(t2, t3)))

NeverAborts ==
    pc = "done" =>
        \/ result.kind = "ok"
        \/ result.kind = "err" /\ result.err \in ErrorKinds

(***************************************************************************)
(* C6: once ntp has returned, on whatever path, no socket is open; a       *)
(* receive that fails (no reply before the timeout) makes ntp return       *)
(* Err(ServiceUnavailable), the socket it had opened closed.               *)
(***************************************************************************)
SocketReleased ==
    Returned =>
        /\ socket # "open"
        /\ Has("validate_time") => socket = "closed"
        /\ (Last(trace) = "recv") =>
              ntp_result = Err("ServiceUnavailable") /\ socket = "closed"

ReceiveTimedOut ==
    /\ pc = "done"
    /\ Last(trace) = "recv"
    /\ reply = <<>>
    /\ result = Err("ServiceUnavailable")
    /\ socket = "closed"

(***************************************************************************)
(* C7: unmarshal refuses every buffer whose length is not 48 (0, 47, 49    *)
(* bytes, whatever they hold) and accepts every 48-byte buffer; in ntp a   *)
(* receive of fewer than 48 bytes ends in Err(TruncatedNtpMessage).        *)
(***************************************************************************)
DecodeLengthGuard ==
    /\ Len(reply) = 1 =>
          \A len \in ReplyLens \cup {Len(reply[1])} :
              unmarshal(NewMsg, Resize(reply[1], len)).ok <=> len = MSG_LEN
    /\ (Has("decode") /\ n < MSG_LEN) =>
          /\ Returned
          /\ ntp_result = Err("TruncatedNtpMessage")
          /\ pc = "done" => result = Err("TruncatedNtpMessage")
    /\ (Has("decode") /\ n = MSG_LEN) => ntp_result # Err("TruncatedNtpMessage")

ShortReplyRefused ==
    /\ pc = "done"
    /\ n = MSG_LEN - 1
    /\ Len(reply) = 1
    /\ result = Err("TruncatedNtpMessage")

(***************************************************************************)
(* C8: the datagram sent is 48 bytes: 0x23, 39 zero bytes, then big-endian *)
(* the time read for validation in NTP-timestamp form (seconds since 1900  *)
(* in the high 32 bits, the fraction scaled by 2^32 in the low 32 bits),   *)
(* the value kept for the originate check.                                 *)
(***************************************************************************)
RequestCarriesNtpTime ==
    Len(wire) = 1 =>
        /\ Len(wire[1]) = MSG_LEN
        /\ wire[1] = <<35>> \o Zeros(39) \o to_be_bytes(NtpForm(validate_time), 8)
        /\ timestamp = NtpForm(validate_time)

(***************************************************************************)
(* C9: clock_offset_nanos returns local minus remote: with a symmetric     *)
(* delay and the local clock k ns ahead of the server (t2 = t1 + delay - k,*)
(* t4 = t3 + delay + k) the result is +k, negative when the local clock is *)
(* behind.                                                                 *)
(***************************************************************************)
OffsetIsLocalMinusRemote ==
    LET out == SSub(Nanos(Tuple[2]), Nanos(Tuple[1]))    \* delay - k
        back == SSub(Nanos(Tuple[4]), Nanos(Tuple[3]))   \* delay + k
        delay2 == SAdd(out, back)
        k == SDiv(SSub(back, out), SFromInt(2))
    IN  (OffsetDone /\ ~delay2.neg /\ IsEven(delay2)) =>
            result.kind = "ok" /\ result.offset = k

(***************************************************************************)
(* C10: the steps of ntp happen in the order open, validation timestamp,   *)
(* t1, send, receive, t4, decode, originate check, each at most once; a    *)
(* step that fails is the last one; nothing is sent twice, nothing is      *)
(* received without a successful send.                                     *)
(***************************************************************************)
StepOrder == <<"open", "validate_time", "t1", "send", "recv", "t4", "decode", "check">>

StepsInOrder ==
    /\ IsPrefix(trace, StepOrder)
    /\ Len(wire) <= 1 /\ Len(reply) <= 1
    /\ Len(wire) = 1 => Has("send") /\ Has("t1")
    /\ Has("recv") => Len(wire) = 1
    /\ Len(reply) = 1 => Has("recv")
    /\ Has("t4") => Len(reply) = 1
    /\ Has("decode") => Has("t4")
    /\ ntp_result.kind = "err" =>
          /\ Returned
          /\ ntp_result.err = "ServiceUnavailable" => Last(trace) \in {"open", "send", "recv"}
          /\ ntp_result.err = "UnexpectedErr" => Last(trace) = "open"
          /\ ntp_result.err = "TruncatedNtpMessage" => Last(trace) = "decode"
          /\ ntp_result.err = "UntrustedMessage" => Last(trace) = "check"
          /\ Last(trace) = "open" => wire = <<>>
          /\ Last(trace) = "send" => wire = <<>> /\ reply = <<>>
          /\ Last(trace) = "recv" => reply = <<>>
    /\ (Returned /\ ~Has("check")) => ntp_result.kind = "err"

AllStepsTaken ==
    /\ pc = "done"
    /\ trace = StepOrder
    /\ result.kind = "ok"
    /\ Len(wire) = 1 /\ Len(reply) = 1

====
